---- MODULE Spec2Model ----
(***************************************************************************)
(* Gold e-commerce backend (backend/server.js): the pricing function, the  *)
(* gold-price recalculation batch, product creation/update and the         *)
(* price-history log, over a MySQL store reached with one statement per    *)
(* await.  The server holds one connection (db), which runs the statements *)
(* it is given one at a time, in the order they were issued: a handler     *)
(* whose statement was answered issues its next one behind those the other *)
(* handlers have pending.                                                  *)
(*                                                                         *)
(* Numbers.  The JavaScript arithmetic is IEEE 754 double precision, and   *)
(* it is modelled bit for bit: a Number is a sign, a 53-bit mantissa and   *)
(* an exponent, every operation rounds to nearest, ties to even.  The      *)
(* mantissas are kept as sequences of 14-bit limbs, least significant      *)
(* first, so that no intermediate exceeds 32-bit integers.                 *)
(*                                                                         *)
(* Units.  The store's DECIMAL columns hold integers: money in cents       *)
(* (DECIMAL(10,2)), weights in milligrams (DECIMAL(8,3)), percentages in   *)
(* hundredths of a percent (DECIMAL(5,2)).  The driver returns a DECIMAL   *)
(* column as a string; where the code computes with it, it is converted    *)
(* to the nearest Number (Decimal).  A JSON number of a request is given   *)
(* in the unit of the column it is meant for.                              *)
(*                                                                         *)
(* A request field is <<>> when the JSON body carries null and <<v>> when   *)
(* it carries the value v.  A statement that the driver or the store       *)
(* rejects is a failed statement: the handler's catch answers 500.  The    *)
(* store runs in strict SQL mode, so a NaN, an infinity or a string that   *)
(* is no decimal number, bound to a DECIMAL column, is rejected.           *)
(***************************************************************************)
EXTENDS Integers, Sequences, FiniteSets

VARIABLES
    gold_prices,    \* table gold_prices: row id = index; price_per_gram, updated_at
    products,       \* table products: row id = index
    price_history,  \* table price_history: row id = index
    now,            \* the store's clock, in seconds (CURRENT_TIMESTAMP)
    req,            \* per request slot: the handler in flight, its locals, its response
    db,             \* the connection's queue: the slots whose statement waits, the first one running
    started,        \* number of requests received so far
    gold_at_write,  \* history variable: per product, the current gold price when its row was last written
    calc,           \* a call of GoldPriceCalculator.calculatePrice: its arguments and its result
    boot            \* startServer and connectDB: their position, retryCount, the pending timer

vars == <<gold_prices, products, price_history, now, req, db, started, gold_at_write, calc, boot>>

(***************************************************************************)
(* Bounds of the model.                                                    *)
(***************************************************************************)
MaxOps == 2
MaxTime == 1
NumSlots == 2

Slots == 1..NumSlots

(***************************************************************************)
(* Natural numbers of any size: sequences of limbs below Base, the least   *)
(* significant first, the last limb not 0; <<>> is 0.                       *)
(***************************************************************************)
LimbBits == 14
Base == 16384

Limb(a, i) == IF i \in DOMAIN a THEN a[i] ELSE 0

RECURSIVE BNorm(_)
BNorm(a) == IF a # <<>> /\ a[Len(a)] = 0 THEN BNorm(SubSeq(a, 1, Len(a) - 1)) ELSE a

\* the limbs of the number whose columns are s (each below 2^30 in size), carry c coming in
RECURSIVE Carry(_, _)
Carry(s, c) ==
    IF s = <<>>
    THEN (IF c = 0 THEN <<>> ELSE <<c % Base>> \o Carry(<<>>, c \div Base))
    ELSE <<(s[1] + c) % Base>> \o Carry(Tail(s), (s[1] + c) \div Base)

BFromInt(n) == BNorm(Carry(<<n>>, 0))

RECURSIVE BToInt(_)
BToInt(a) == IF a = <<>> THEN 0 ELSE a[1] + Base * BToInt(Tail(a))

MaxOf(x, y) == IF x >= y THEN x ELSE y

BAdd(a, b) == BNorm(Carry([i \in 1..MaxOf(Len(a), Len(b)) |-> Limb(a, i) + Limb(b, i)], 0))

\* a - b for a >= b
BSub(a, b) == BNorm(Carry([i \in 1..Len(a) |-> a[i] - Limb(b, i)], 0))

\* -1, 0, 1 as a < b, a = b, a > b
RECURSIVE BCmpFrom(_, _, _)
BCmpFrom(a, b, i) ==
    IF i = 0 THEN 0
    ELSE IF a[i] # b[i] THEN (IF a[i] < b[i] THEN -1 ELSE 1)
    ELSE BCmpFrom(a, b, i - 1)

BCmp(a, b) ==
    IF Len(a) # Len(b) THEN (IF Len(a) < Len(b) THEN -1 ELSE 1) ELSE BCmpFrom(a, b, Len(a))

RECURSIVE ColSum(_, _, _, _)
ColSum(a, b, k, i) ==
    IF i > Len(a) THEN 0
    ELSE (IF k + 1 - i \in DOMAIN b THEN a[i] * b[k + 1 - i] ELSE 0) + ColSum(a, b, k, i + 1)

\* a * b, for a and b of at most four limbs
BMul(a, b) ==
    IF a = <<>> \/ b = <<>> THEN <<>>
    ELSE BNorm(Carry([k \in 1..(Len(a) + Len(b) - 1) |-> ColSum(a, b, k, 1)], 0))

\* a * k for 0 <= k < 2^16
BMulSmall(a, k) == BNorm(Carry([i \in 1..Len(a) |-> a[i] * k], 0))

\* the quotient and the remainder of a by d, 0 < d < 2^17, from the top limb down
RECURSIVE BDivSmallFrom(_, _, _, _)
BDivSmallFrom(a, d, i, rem) ==
    IF i = 0 THEN [q |-> <<>>, r |-> rem]
    ELSE LET t    == rem * Base + a[i]
             rest == BDivSmallFrom(a, d, i - 1, t % d)
         IN  [q |-> Append(rest.q, t \div d), r |-> rest.r]

BDivSmall(a, d) ==
    LET x == BDivSmallFrom(a, d, Len(a), 0) IN [q |-> BNorm(x.q), r |-> x.r]

RECURSIVE BitLenSmall(_)
BitLenSmall(x) == IF x = 0 THEN 0 ELSE 1 + BitLenSmall(x \div 2)

BBitLen(a) == IF a = <<>> THEN 0 ELSE LimbBits * (Len(a) - 1) + BitLenSmall(a[Len(a)])

\* bit i of a, bit 0 the lowest
BBit(a, i) == (Limb(a, (i \div LimbBits) + 1) \div (2 ^ (i % LimbBits))) % 2

\* a * 2^n
BShl(a, n) ==
    IF a = <<>> THEN <<>>
    ELSE [i \in 1..(n \div LimbBits) |-> 0]
         \o BNorm(Carry([i \in 1..Len(a) |-> a[i] * (2 ^ (n % LimbBits))], 0))

\* floor(a / 2^n)
BShr(a, n) ==
    LET q == n \div LimbBits
        r == n % LimbBits
    IN  IF q >= Len(a) THEN <<>>
        ELSE BNorm([i \in 1..(Len(a) - q) |->
                       (a[i + q] \div (2 ^ r)) + (Limb(a, i + q + 1) % (2 ^ r)) * (2 ^ (LimbBits - r))])

\* a mod 2^n = 0
BLowZero(a, n) ==
    /\ \A i \in 1..(n \div LimbBits) : Limb(a, i) = 0
    /\ Limb(a, (n \div LimbBits) + 1) % (2 ^ (n % LimbBits)) = 0

(***************************************************************************)
(* JavaScript Numbers: IEEE 754 binary64.  A finite number is              *)
(* (-1)^neg * m * 2^e with m below 2^53, and m at least 2^52 unless        *)
(* e = MinExp; zero has m = <<>> and e = 0.                                *)
(***************************************************************************)
Precision == 53
MinExp == -1074
MaxExp == 971

NaN == [k |-> "nan", neg |-> FALSE, m |-> <<>>, e |-> 0]
Infinity(neg) == [k |-> "inf", neg |-> neg, m |-> <<>>, e |-> 0]
Zero(neg) == [k |-> "num", neg |-> neg, m |-> <<>>, e |-> 0]

IsNaN(x) == x.k = "nan"
IsZero(x) == x.k = "num" /\ x.m = <<>>
Negate(x) == IF x.k = "nan" THEN x ELSE [x EXCEPT !.neg = ~x.neg]

Finite(neg, m, e) ==
    IF m = <<>> THEN Zero(neg)
    ELSE IF e > MaxExp THEN Infinity(neg)
    ELSE [k |-> "num", neg |-> neg, m |-> m, e |-> e]

\* the Number nearest to (-1)^neg * (n + f) * 2^e, where 0 <= f < 1 and f > 0 exactly
\* when sticky; ties go to the even mantissa.  With sticky, n has 55 bits or more.
\* n loses its last shift bits: n = q * 2^shift + rest goes up to q + 1 when the bit
\* below q is set and either something follows it or q is odd; the mantissa r then has
\* Precision bits, or one more after a carry.
RoundNearestEven(neg, n, e, sticky) ==
    LET Renormalize(r, re) ==
            IF BBitLen(r) > Precision THEN Finite(neg, BShr(r, 1), re + 1)
            ELSE Finite(neg, r, re)
        RoundShifted(shift, q) ==
            Renormalize(IF /\ BBit(n, shift - 1) = 1
                           /\ (sticky \/ ~BLowZero(n, shift - 1) \/ BBit(q, 0) = 1)
                        THEN BAdd(q, <<1>>) ELSE q,
                        e + shift)
        RoundBy(shift) ==
            IF n = <<>> THEN Zero(neg)
            ELSE IF shift <= 0 THEN Finite(neg, BShl(n, -shift), e + shift)
            ELSE RoundShifted(shift, BShr(n, shift))
    IN  RoundBy(MaxOf(BBitLen(n) - Precision, MinExp - e))

\* the Number of an integer, which has fewer than Precision bits
FromInt(i) ==
    LET FromNat(n) ==
            IF n = <<>> THEN Zero(FALSE)
            ELSE Finite(i < 0, BShl(n, Precision - BBitLen(n)), BBitLen(n) - Precision)
    IN  FromNat(BFromInt(IF i < 0 THEN -i ELSE i))

\* x * y
Times(x, y) ==
    IF x.k = "nan" \/ y.k = "nan" THEN NaN
    ELSE IF x.k = "inf" \/ y.k = "inf"
         THEN (IF IsZero(x) \/ IsZero(y) THEN NaN ELSE Infinity(x.neg # y.neg))
    ELSE IF IsZero(x) \/ IsZero(y) THEN Zero(x.neg # y.neg)
    ELSE RoundNearestEven(x.neg # y.neg, BMul(x.m, y.m), x.e + y.e, FALSE)

\* x + y for finite non-zero x and y: a term too small to reach the other's rounding
\* bit changes nothing; otherwise both mantissas are brought to the smaller exponent e,
\* as a and b, and c compares them
PlusFinite(x, y) ==
    LET tx == x.e + BBitLen(x.m)
        ty == y.e + BBitLen(y.m)
        PlusAligned(e, a, b, c) ==
            IF x.neg # y.neg /\ c = 0 THEN Zero(FALSE)
            ELSE RoundNearestEven(IF x.neg = y.neg \/ c > 0 THEN x.neg ELSE y.neg,
                                  IF x.neg = y.neg THEN BAdd(a, b)
                                  ELSE IF c > 0 THEN BSub(a, b) ELSE BSub(b, a),
                                  e, FALSE)
        PlusShifted(e, a, b) == PlusAligned(e, a, b, BCmp(a, b))
        PlusAt(e) == PlusShifted(e, BShl(x.m, x.e - e), BShl(y.m, y.e - e))
    IN  IF tx - ty > Precision + 3 THEN x
        ELSE IF ty - tx > Precision + 3 THEN y
        ELSE PlusAt(IF x.e <= y.e THEN x.e ELSE y.e)

\* x + y
Plus(x, y) ==
    IF x.k = "nan" \/ y.k = "nan" THEN NaN
    ELSE IF x.k = "inf" THEN (IF y.k = "inf" /\ x.neg # y.neg THEN NaN ELSE x)
    ELSE IF y.k = "inf" THEN y
    ELSE IF IsZero(x) THEN (IF IsZero(y) THEN Zero(x.neg /\ y.neg) ELSE y)
    ELSE IF IsZero(y) THEN x
    ELSE PlusFinite(x, y)

\* x - y
Minus(x, y) == Plus(x, Negate(y))

\* the largest digit k with d * k <= r, counted down from an estimate that is not
\* below it
RECURSIVE DivDigit(_, _, _)
DivDigit(r, d, k) ==
    IF k = 0 \/ BCmp(BMulSmall(d, k), r) <= 0 THEN k ELSE DivDigit(r, d, k - 1)

\* the two leading limbs of r < d * Base over the leading limb of d: at least the
\* digit floor(r / d), and at most 2 above it when the leading limb of d is Base / 2
\* or more
DivEstimate(r, d) ==
    LET n  == Len(d)
        hi == IF Len(r) > n THEN r[n + 1] ELSE 0
        lo == IF Len(r) >= n THEN r[n] ELSE 0
        q  == (hi * Base + lo) \div d[n]
    IN  IF q >= Base THEN Base - 1 ELSE q

\* schoolbook long division by d # 0, the leading limb first: the limbs a[1..i] are
\* still to come, q holds the digits found so far and r the remainder of the limbs
\* above; the next limb is brought down to r, and the digit k of that t over d goes
\* before q
RECURSIVE BDivFrom(_, _, _, _, _)
BDivFrom(a, d, i, q, r) ==
    LET t == BNorm(<<a[i]>> \o r)
        k == DivDigit(t, d, DivEstimate(t, d))
    IN  IF i = 0 THEN [q |-> BNorm(q), r |-> r]
        ELSE IF k = 0 THEN BDivFrom(a, d, i - 1, <<0>> \o q, t)
        ELSE BDivFrom(a, d, i - 1, <<k>> \o q, BSub(t, BMulSmall(d, k)))

BDiv(a, d) == BDivFrom(a, d, Len(a), <<>>, <<>>)

\* the quotient is computed to DivideGuard bits, enough to round it to Precision bits;
\* DivideAlign more bits on both sides make the divisor fill its limbs
DivideGuard == 56

DivideAlign == 3

\* x / y; the mantissas of finite non-zero x and y lack sx and sy bits of Precision
Divide(x, y) ==
    LET DivideRounded(d, e) == RoundNearestEven(x.neg # y.neg, d.q, e, d.r # <<>>)
        DivideFinite(sx, sy) ==
            DivideRounded(BDiv(BShl(x.m, sx + DivideGuard + DivideAlign),
                               BShl(y.m, sy + DivideAlign)),
                          (x.e - sx) - (y.e - sy) - DivideGuard)
    IN  IF x.k = "nan" \/ y.k = "nan" THEN NaN
        ELSE IF x.k = "inf" THEN (IF y.k = "inf" THEN NaN ELSE Infinity(x.neg # y.neg))
        ELSE IF y.k = "inf" THEN Zero(x.neg # y.neg)
        ELSE IF IsZero(y) THEN (IF IsZero(x) THEN NaN ELSE Infinity(x.neg # y.neg))
        ELSE IF IsZero(x) THEN Zero(x.neg # y.neg)
        ELSE DivideFinite(Precision - BBitLen(x.m), Precision - BBitLen(y.m))

\* x / d for an integer 0 < d < 2^17
DivideSmall(x, d) ==
    LET DivideRounded(t, e) == RoundNearestEven(x.neg, t.q, e, t.r # 0)
    IN  IF x.k # "num" \/ IsZero(x) THEN x
        ELSE DivideRounded(BDivSmall(BShl(x.m, Precision + 20), d), x.e - (Precision + 20))

\* the Number nearest to n / d: the value of a decimal column or a JSON number
Decimal(n, d) == DivideSmall(FromInt(n), d)

(***************************************************************************)
(* Comparison, Math.round, toFixed and the conversion to a DECIMAL column  *)
(***************************************************************************)
\* x < y and x >= y: both are false when x or y is NaN
Less(x, y) ==
    LET Negative(d) == d.neg /\ ~IsZero(d)
    IN  x.k # "nan" /\ y.k # "nan" /\ x # y /\ Negative(Minus(x, y))

GreaterEq(x, y) ==
    LET Negative(d) == d.neg /\ ~IsZero(d)
    IN  x.k # "nan" /\ y.k # "nan" /\ (x = y \/ ~Negative(Minus(x, y)))

\* Math.round(x): floor(x + 1/2) computed exactly, so halves go towards +Infinity;
\* NaN, the infinities and the zeros are returned as they are
MathRound(x) ==
    IF x.k # "num" \/ IsZero(x) \/ x.e >= 0 THEN x
    ELSE LET sh == -x.e
             up == BBit(x.m, sh - 1) = 1 /\ (~x.neg \/ ~BLowZero(x.m, sh - 1))
             n  == BAdd(BShr(x.m, sh), IF up THEN <<1>> ELSE <<>>)
         IN  RoundNearestEven(x.neg, n, 0, FALSE)

\* the integer nearest to |x| * k for a finite x and 0 < k < 2^16, halves away from zero
RoundHalfAway(x, k) ==
    LET n == BMulSmall(x.m, k)
    IN  IF x.e >= 0 THEN BShl(n, x.e)
        ELSE BAdd(BShr(n, -x.e), IF BBit(n, -x.e - 1) = 1 THEN <<1>> ELSE <<>>)

\* x.toFixed(fractionDigits): the sign, the digits before the point and the
\* fractionDigits digits after it; the sign is that of x, also when every digit is 0
toFixed(x, fractionDigits) ==
    LET FixedDigits(n) ==
            [t |-> "num", negative |-> x.neg /\ ~IsZero(x),
             whole |-> BToInt(n.q), decimals |-> n.r]
    IN  IF x.k = "nan" THEN [t |-> "NaN", negative |-> FALSE, whole |-> 0, decimals |-> 0]
        ELSE IF x.k = "inf"
             THEN [t |-> "Infinity", negative |-> x.neg, whole |-> 0, decimals |-> 0]
        ELSE FixedDigits(BDivSmall(RoundHalfAway(x, 10 ^ fractionDigits),
                                   10 ^ fractionDigits))

\* a Number bound to a DECIMAL(p, s) column, scale = 10^s.  The driver sends a double;
\* the store reads it as the shortest decimal that names it and rounds that to s
\* decimals, halves away from zero: 1.005 becomes 1.01 although the double lies below
\* 1.005.  So n, the rounding of the double itself, moves up by one when the double is
\* the one nearest to n + 1/2.  NaN and the infinities are rejected (strict SQL mode).
ToDecimal(x, scale) ==
    LET Rounded(n) ==
            IF [x EXCEPT !.neg = FALSE] = Decimal(2 * n + 1, 2 * scale) THEN n + 1 ELSE n
    IN  IF x.k # "num" THEN [ok |-> FALSE, v |-> 0]
        ELSE [ok |-> TRUE,
              v  |-> (IF x.neg THEN -1 ELSE 1) * Rounded(BToInt(RoundHalfAway(x, scale)))]

(***************************************************************************)
(* Strings, as sequences of characters: Number(string), parseFloat         *)
(***************************************************************************)
\* StrWhiteSpaceChar: what Number(string) trims at both ends and parseFloat skips at
\* the start.  A character outside ASCII is written as its code point.
WhiteSpace ==
    {" ", "\t", "\n", "\r", "\f", "U+000B", "U+00A0", "U+1680", "U+2000", "U+2001",
     "U+2002", "U+2003", "U+2004", "U+2005", "U+2006", "U+2007", "U+2008", "U+2009",
     "U+200A", "U+2028", "U+2029", "U+202F", "U+205F", "U+3000", "U+FEFF"}
\* what the store skips around a decimal number given as a string
SqlWhiteSpace == {" ", "\t", "\n", "\r", "\f", "U+000B"}
DecimalDigits == {"0", "1", "2", "3", "4", "5", "6", "7", "8", "9"}
BinaryDigits == {"0", "1"}
OctalDigits == {"0", "1", "2", "3", "4", "5", "6", "7"}
HexDigits == DecimalDigits \cup {"a", "b", "c", "d", "e", "f", "A", "B", "C", "D", "E", "F"}
InfinityLiteral == <<"I", "n", "f", "i", "n", "i", "t", "y">>

DigitValue(c) ==
    CASE c = "0" -> 0 [] c = "1" -> 1 [] c = "2" -> 2 [] c = "3" -> 3 [] c = "4" -> 4
      [] c = "5" -> 5 [] c = "6" -> 6 [] c = "7" -> 7 [] c = "8" -> 8 [] c = "9" -> 9
      [] c \in {"a", "A"} -> 10 [] c \in {"b", "B"} -> 11 [] c \in {"c", "C"} -> 12
      [] c \in {"d", "D"} -> 13 [] c \in {"e", "E"} -> 14 [] c \in {"f", "F"} -> 15

DigitChar(d) == <<"0", "1", "2", "3", "4", "5", "6", "7", "8", "9">>[d + 1]

\* the decimal digits of n >= 0
RECURSIVE DigitsOf(_)
DigitsOf(n) == IF n < 10 THEN <<DigitChar(n)>> ELSE Append(DigitsOf(n \div 10), DigitChar(n % 10))

\* how many characters of s from position i on are in set
RECURSIVE CountIn(_, _, _)
CountIn(s, i, set) ==
    IF i \in DOMAIN s /\ s[i] \in set THEN 1 + CountIn(s, i + 1, set) ELSE 0

\* the value of the n digits of s from position i on, in the given radix
RECURSIVE DigitsValue(_, _, _, _)
DigitsValue(s, i, n, radix) ==
    IF n = 0 THEN 0 ELSE DigitsValue(s, i, n - 1, radix) * radix + DigitValue(s[i + n - 1])

\* s without the characters of set at its end, at its start
RECURSIVE TrimEnd(_, _)
TrimEnd(s, set) ==
    IF s # <<>> /\ s[Len(s)] \in set THEN TrimEnd(SubSeq(s, 1, Len(s) - 1), set) ELSE s

TrimStart(s, set) == SubSeq(s, 1 + CountIn(s, 1, set), Len(s))

TrimRight(s) == TrimEnd(s, WhiteSpace)

TrimLeft(s) == TrimStart(s, WhiteSpace)

StartsWith(s, lit) == Len(s) >= Len(lit) /\ SubSeq(s, 1, Len(lit)) = lit

\* the longest StrUnsignedDecimalLiteral (digits, '.', digits, exponent) that s
\* begins with: whether there is one, its length, and its value mant / 10^scale.  The
\* mantissa has mantLen characters, intN digits before the point and fracN after it.
StrUnsignedDecimalLiteral(s) ==
    LET LiteralExponent(intN, fracN, mantLen) ==
            LET e      == mantLen + 1 \in DOMAIN s /\ s[mantLen + 1] \in {"e", "E"}
                signed == e /\ mantLen + 2 \in DOMAIN s /\ s[mantLen + 2] \in {"+", "-"}
                expAt  == mantLen + 2 + (IF signed THEN 1 ELSE 0)
                expN   == IF e THEN CountIn(s, expAt, DecimalDigits) ELSE 0
            IN  [ok    |-> intN > 0 \/ fracN > 0,
                 len   |-> IF expN > 0 THEN expAt + expN - 1 ELSE mantLen,
                 mant  |-> DigitsValue(s, 1, intN, 10) * (10 ^ fracN)
                               + DigitsValue(s, intN + 2, fracN, 10),
                 scale |-> fracN - (IF signed /\ s[mantLen + 2] = "-" THEN -1 ELSE 1)
                                       * DigitsValue(s, expAt, expN, 10)]
        LiteralFraction(intN) ==
            LET dot   == intN + 1 \in DOMAIN s /\ s[intN + 1] = "."
                fracN == IF dot THEN CountIn(s, intN + 2, DecimalDigits) ELSE 0
            IN  LiteralExponent(intN, fracN, intN + (IF dot THEN 1 + fracN ELSE 0))
    IN  LiteralFraction(CountIn(s, 1, DecimalDigits))

\* the Number nearest to mant / 10^scale
DecimalValue(mant, scale) ==
    IF scale <= 0 THEN FromInt(mant * (10 ^ (-scale))) ELSE Decimal(mant, 10 ^ scale)

\* s without its leading sign, and the Number x with the sign of s put back
Unsigned(s) == IF s # <<>> /\ s[1] \in {"-", "+"} THEN Tail(s) ELSE s

WithSign(s, x) == IF s # <<>> /\ s[1] = "-" THEN Negate(x) ELSE x

\* parseFloat of a string: white space is skipped, then the longest prefix that is a
\* decimal literal counts and the rest is ignored; no such prefix gives NaN
parseFloatUnsigned(s) ==
    LET Literal(lit) == IF lit.ok THEN DecimalValue(lit.mant, lit.scale) ELSE NaN
    IN  IF StartsWith(s, InfinityLiteral) THEN Infinity(FALSE)
        ELSE Literal(StrUnsignedDecimalLiteral(s))

parseFloatString(s) ==
    LET Trimmed(t) == WithSign(t, parseFloatUnsigned(Unsigned(t)))
    IN  Trimmed(TrimLeft(s))

\* Number(string): white space is trimmed at both ends, the empty string is 0, '0x..',
\* '0o..' and '0b..' are unsigned integers in radix 16, 8 and 2, and otherwise the whole
\* string must be a decimal literal
StringToNumberUnsigned(s) ==
    LET Literal(lit) ==
            IF lit.ok /\ lit.len = Len(s) THEN DecimalValue(lit.mant, lit.scale) ELSE NaN
    IN  IF s = InfinityLiteral THEN Infinity(FALSE)
        ELSE Literal(StrUnsignedDecimalLiteral(s))

\* a decimal literal with an optional sign, as a whole
StringToNumberSigned(t) == WithSign(t, StringToNumberUnsigned(Unsigned(t)))

StringToNumber(s) ==
    LET Prefixed(t, letters, digits) ==
            /\ Len(t) > 2 /\ t[1] = "0" /\ t[2] \in letters
            /\ CountIn(t, 3, digits) = Len(t) - 2
        Trimmed(t) ==
            IF t = <<>> THEN Zero(FALSE)
            ELSE IF Prefixed(t, {"x", "X"}, HexDigits)
                 THEN FromInt(DigitsValue(t, 3, Len(t) - 2, 16))
            ELSE IF Prefixed(t, {"o", "O"}, OctalDigits)
                 THEN FromInt(DigitsValue(t, 3, Len(t) - 2, 8))
            ELSE IF Prefixed(t, {"b", "B"}, BinaryDigits)
                 THEN FromInt(DigitsValue(t, 3, Len(t) - 2, 2))
            ELSE StringToNumberSigned(t)
    IN  Trimmed(TrimRight(TrimLeft(s)))

\* a string bound to a DECIMAL(p, s) column, scale = 10^s: the store reads the decimal
\* number the whole string spells, white space around it aside, and rounds it to s
\* decimals, halves away from zero; any other string is rejected (strict SQL mode)
StringToDecimal(s, scale) ==
    LET Rounded(lit, unit) ==
            IF lit.scale <= 0 THEN lit.mant * (10 ^ (-lit.scale)) * scale
            ELSE (2 * lit.mant * scale + unit) \div (2 * unit)
        Literal(t, lit) ==
            IF lit.ok /\ lit.len = Len(Unsigned(t))
            THEN [ok |-> TRUE,
                  v  |-> (IF t[1] = "-" THEN -1 ELSE 1) * Rounded(lit, 10 ^ lit.scale)]
            ELSE [ok |-> FALSE, v |-> 0]
        Trimmed(t) == Literal(t, StrUnsignedDecimalLiteral(Unsigned(t)))
    IN  Trimmed(TrimEnd(TrimStart(s, SqlWhiteSpace), SqlWhiteSpace))

\* the string of a JSON number given in hundredths: the shortest decimal that reads back
\* as the same Number, so without trailing zeros
NumberToString(cents) ==
    LET a     == IF cents < 0 THEN -cents ELSE cents
        whole == DigitsOf(a \div 100)
        frac  == IF a % 100 = 0 THEN <<>>
                 ELSE IF a % 10 = 0 THEN <<".", DigitChar((a % 100) \div 10)>>
                 ELSE <<".", DigitChar((a % 100) \div 10), DigitChar(a % 10)>>
    IN  (IF cents < 0 THEN <<"-">> ELSE <<>>) \o whole \o frac

(***************************************************************************)
(* GoldPriceCalculator                                                     *)
(***************************************************************************)
FactorScale == 10000    \* the carat factors below are in ten-thousandths
MilliScale == 1000      \* DECIMAL(8,3)
CentScale == 100        \* DECIMAL(10,2) and DECIMAL(5,2)

CARAT_FACTORS ==
    [c \in {"24K", "22K", "21K", "18K", "14K", "10K"} |->
        CASE c = "24K" -> 10000
          [] c = "22K" -> 9167
          [] c = "21K" -> 8750
          [] c = "18K" -> 7500
          [] c = "14K" -> 5850
          [] c = "10K" -> 4170]

\* the properties an object literal inherits from Object.prototype: a lookup of one of
\* these names finds a function (an object for __proto__), which is truthy
ObjectPrototype ==
    {"constructor", "toString", "toLocaleString", "valueOf", "hasOwnProperty",
     "isPrototypeOf", "propertyIsEnumerable", "__proto__", "__defineGetter__",
     "__defineSetter__", "__lookupGetter__", "__lookupSetter__"}

\* this.CARAT_FACTORS[product.carat] || 1, as the Number the multiplication makes of it:
\* a table entry, NaN for an inherited property, 1 for any other label
CaratFactor(carat) ==
    IF carat \in DOMAIN CARAT_FACTORS THEN Decimal(CARAT_FACTORS[carat], FactorScale)
    ELSE IF carat \in ObjectPrototype THEN NaN
    ELSE FromInt(1)

\* Math.round(x * 100) / 100
RoundToCents(x) == DivideSmall(MathRound(Times(x, FromInt(100))), 100)

\* the gold value taken off the making charges instead of added to them
calculatePrice_valueOff(product, goldPricePerGram) ==
    LET caratFactor   == CaratFactor(product.carat)
        goldValue     == Times(Times(Decimal(product.weight, MilliScale), goldPricePerGram),
                               caratFactor)
        makingCharges == Times(goldValue,
                               DivideSmall(Decimal(product.making_charges, CentScale), 100))
        baseCost      == Minus(makingCharges, goldValue)
        sellingPrice  == Times(baseCost,
                               Plus(FromInt(1),
                                    DivideSmall(Decimal(product.profit_margin, CentScale), 100)))
    IN  [goldValue     |-> RoundToCents(goldValue),
         makingCharges |-> RoundToCents(makingCharges),
         baseCost      |-> RoundToCents(baseCost),
         sellingPrice  |-> RoundToCents(sellingPrice)]

\* calculatePrice(product, goldPricePerGram): the four amounts, each rounded to cents
\* at the end, none rounded in between.  product.weight, product.making_charges and
\* product.profit_margin are decimal values (a JSON number, or a DECIMAL column that
\* the arithmetic converts from its string); goldPricePerGram is a Number.
calculatePrice(product, goldPricePerGram) ==
    LET caratFactor   == CaratFactor(product.carat)
        goldValue     == Times(Times(Decimal(product.weight, MilliScale), goldPricePerGram),
                               caratFactor)
        makingCharges == Times(goldValue,
                               DivideSmall(Decimal(product.making_charges, CentScale), 100))
        baseCost      == Plus(goldValue, makingCharges)
        sellingPrice  == Times(baseCost,
                               Plus(FromInt(1),
                                    DivideSmall(Decimal(product.profit_margin, CentScale), 100)))
    IN  [goldValue     |-> RoundToCents(goldValue),
         makingCharges |-> RoundToCents(makingCharges),
         baseCost      |-> RoundToCents(baseCost),
         sellingPrice  |-> RoundToCents(sellingPrice)]

\* the arguments calculatePrice is called with on its own: weights in mg, labels,
\* percentages in hundredths of a percent, prices per gram in cents
CalcWeights == {1, 1005, 8200, 10500}
CalcCarats == {"24K", "22K", "99K", "toString"}
CalcCharges == {0, 50, 750}
CalcMargins == {0, 1500}
CalcPrices == {1, 2, 100, 300000}

NoBreakdown ==
    [goldValue |-> Zero(FALSE), makingCharges |-> Zero(FALSE),
     baseCost |-> Zero(FALSE), sellingPrice |-> Zero(FALSE)]

\* no call of calculatePrice on its own is under way
NoCalc ==
    [pc |-> "off",
     product |-> [weight |-> 1, carat |-> "24K", making_charges |-> 0, profit_margin |-> 0],
     low |-> 1, high |-> 1, atLow |-> NoBreakdown, atHigh |-> NoBreakdown]

\* one product and two prices per gram, low <= high, about to be priced
CalcInputs ==
    {[pc |-> "called",
      product |-> [weight |-> w, carat |-> c, making_charges |-> mc, profit_margin |-> pm],
      low |-> g[1], high |-> g[2], atLow |-> NoBreakdown, atHigh |-> NoBreakdown] :
        w \in CalcWeights, c \in CalcCarats, mc \in CalcCharges, pm \in CalcMargins,
        g \in {h \in CalcPrices \X CalcPrices : h[1] <= h[2]}}

(***************************************************************************)
(* Request values                                                          *)
(***************************************************************************)
Null == <<>>
Some(v) == <<v>>

\* JavaScript truthiness of a numeric field: null, undefined and 0 are falsy
TruthyNum(x) == x # Null /\ x[1] # 0
\* of a string field: null, undefined and "" are falsy
TruthyStr(x) == x # Null /\ x[1] # ""
\* a || b
OrElse(x, dflt) == IF TruthyNum(x) THEN x[1] ELSE dflt
OrElseStr(x, dflt) == IF TruthyStr(x) THEN x[1] ELSE dflt
\* SQL COALESCE(?, column)
COALESCE(x, column) == IF x # Null THEN x[1] ELSE column

\* price_per_gram of a POST /api/gold-price body: a JSON number (in cents), a JSON
\* string (its characters), true or false, the empty array, or absent
Num(v) == [t |-> "num", v |-> v, s |-> <<>>]
Str(s) == [t |-> "str", v |-> 0, s |-> s]
Bool(b) == [t |-> "bool", v |-> IF b THEN 1 ELSE 0, s |-> <<>>]
EmptyArray == [t |-> "array", v |-> 0, s |-> <<>>]
Absent == [t |-> "absent", v |-> 0, s |-> <<>>]

\* !!price_per_gram
ToBoolean(p) ==
    CASE p.t = "num"  -> p.v # 0
      [] p.t = "str"  -> p.s # <<>>
      [] p.t = "bool" -> p.v = 1
      [] p.t = "array" -> TRUE
      [] OTHER        -> FALSE

\* Number(price_per_gram), the conversion isNaN applies
ToNumber(p) ==
    CASE p.t = "num"  -> Decimal(p.v, CentScale)
      [] p.t = "str"  -> StringToNumber(p.s)
      [] p.t = "bool" -> FromInt(p.v)
      [] p.t = "array" -> StringToNumber(p.s)
      [] OTHER        -> NaN

\* String(price_per_gram), the conversion parseFloat applies
ToString(p) ==
    CASE p.t = "num"  -> NumberToString(p.v)
      [] p.t = "str"  -> p.s
      [] p.t = "bool" -> IF p.v = 1 THEN <<"t", "r", "u", "e">> ELSE <<"f", "a", "l", "s", "e">>
      [] p.t = "array" -> p.s
      [] OTHER        -> <<"u", "n", "d", "e", "f", "i", "n", "e", "d">>

isNaN(p) == IsNaN(ToNumber(p))

parseFloat(p) == parseFloatString(ToString(p))

\* price_per_gram itself bound to a DECIMAL(10,2) column: a number is rounded to cents,
\* a string has to be a decimal number as a whole, undefined is refused by the driver
SqlDecimal(p) ==
    CASE p.t = "num"  -> ToDecimal(Decimal(p.v, CentScale), CentScale)
      [] p.t = "str"  -> StringToDecimal(p.s, CentScale)
      [] p.t = "bool" -> [ok |-> TRUE, v |-> p.v * CentScale]
      [] OTHER        -> [ok |-> FALSE, v |-> 0]

DefaultGoldPrice == 300000      \* 3000.00
DefaultMakingCharges == 500     \* 5.00 %
DefaultProfitMargin == 1000     \* 10.00 %

\* sampleProducts: weight, carat, making_charges, profit_margin of its four rows
SampleProducts ==
    << [weight |-> 10500, carat |-> "24K", making_charges |-> 750,  profit_margin |-> 1500],
       [weight |-> 8200,  carat |-> "22K", making_charges |-> 500,  profit_margin |-> 1200],
       [weight |-> 3500,  carat |-> "18K", making_charges |-> 1000, profit_margin |-> 2000],
       [weight |-> 5000,  carat |-> "21K", making_charges |-> 800,  profit_margin |-> 1800] >>

\* request inputs the model draws from: no price, 'abc', 0, -5, 0.01, 3100, the
\* strings '0', ' ', '0x10', '\t5' and '1.005', true and []
GoldInputs ==
    {Absent, Str(<<"a", "b", "c">>), Num(0), Num(-500), Num(1), Num(310000),
     Str(<<"0">>), Str(<<" ">>), Str(<<"0", "x", "1", "0">>), Str(<<"\t", "5">>),
     Str(<<"1", ".", "0", "0", "5">>), Bool(TRUE), EmptyArray}

\* a request body: each field the model follows is null (or left out) or has a value;
\* undefined names the fields of a PUT body that are left out rather than sent as null
NoBody ==
    [price_per_gram |-> Absent, id |-> 0, name |-> Null, weight |-> Null, carat |-> Null,
     making_charges |-> Null, profit_margin |-> Null, is_active |-> Null, undefined |-> {}]

\* the fields a PUT /api/products/:id takes from its body
UpdateFields ==
    {"name", "weight", "carat", "making_charges", "profit_margin", "category",
     "description", "stock_quantity", "is_active"}

CreateBodies ==
    { [NoBody EXCEPT !.name = Some("Ring"), !.weight = Some(3500), !.carat = Some("18K"),
                     !.making_charges = Some(0), !.profit_margin = Some(2000)],
      [NoBody EXCEPT !.name = Some("Ring"), !.weight = Some(3500), !.carat = Some("toString")],
      [NoBody EXCEPT !.name = Some("Ring"), !.carat = Some("18K")] }

\* PUT bodies: four that send every other field as null, and two that leave the other
\* fields out
UpdateBodies ==
    { [NoBody EXCEPT !.name = Some("Renamed")],
      [NoBody EXCEPT !.making_charges = Some(0)],
      [NoBody EXCEPT !.weight = Some(400)],
      [NoBody EXCEPT !.is_active = Some(FALSE)],
      [NoBody EXCEPT !.name = Some("Renamed"), !.undefined = UpdateFields \ {"name"}],
      [NoBody EXCEPT !.weight = Some(400), !.undefined = UpdateFields \ {"weight"}] }

(***************************************************************************)
(* The store                                                               *)
(***************************************************************************)
Max(S) == CHOOSE x \in S : \A y \in S : y <= x

\* rows that 'ORDER BY updated_at DESC LIMIT 1' may return: the ORDER BY
\* names no second key, so any row of the latest second can come first
LatestGoldRows ==
    {i \in DOMAIN gold_prices :
        \A j \in DOMAIN gold_prices : gold_prices[j].updated_at <= gold_prices[i].updated_at}

\* priceRows[0]?.price_per_gram || 3000, for the row the query returned
\* (DECIMAL columns arrive as strings, so a stored 0.00 is truthy), in cents
goldPriceOf(row) == IF row = 0 THEN DefaultGoldPrice ELSE gold_prices[row].price_per_gram

GoldRowChoices == IF gold_prices = <<>> THEN {0} ELSE LatestGoldRows

\* the current gold price as the data model defines it: latest updated_at,
\* ties broken by the highest id
CurrentGold ==
    IF gold_prices = <<>> THEN DefaultGoldPrice
    ELSE gold_prices[Max(LatestGoldRows)].price_per_gram

\* SELECT * FROM products WHERE is_active = TRUE
RECURSIVE SelectActive(_, _)
SelectActive(rows, i) ==
    IF i > Len(rows) THEN <<>>
    ELSE (IF rows[i].is_active THEN <<[id |-> i, row |-> rows[i]]>> ELSE <<>>)
         \o SelectActive(rows, i + 1)

\* a batch that ignores is_active
allProducts == [i \in DOMAIN products |-> [id |-> i, row |-> products[i]]]

activeProducts == SelectActive(products, 1)

\* the values of INSERT INTO price_history (product_id, old_price, new_price,
\* gold_price_per_gram): [product.id, product.selling_price, <new>, <gold>]
priceHistoryRow(product, newPrice, goldPrice) ==
    [product_id |-> product.id, old_price |-> product.row.selling_price,
     new_price |-> newPrice, gold_price_per_gram |-> goldPrice]

Snapshot == [gold_prices |-> gold_prices, products |-> products, price_history |-> price_history]

(***************************************************************************)
(* connectDB, createTables, initializeDefaultData, startServer             *)
(***************************************************************************)
maxRetries == 5

\* the CREATE TABLE IF NOT EXISTS statements of createTables, in order
tables == <<"gold_prices", "products", "price_history">>

\* a delay that grows by two seconds per failure
delay_linear(retryCount) == 2 * retryCount

\* Math.pow(2, retryCount) * 1000 milliseconds, in seconds
delay(retryCount) == 2 ^ retryCount

\* startServer has called connectDB, which enters its loop
Booting ==
    [pc |-> "connect", retryCount |-> 0, attempts |-> 0, timer |-> 0, waited |-> <<>>,
     connected |-> FALSE, k |-> 0, existing |-> {}, created |-> {}, goldPrice |-> 0, i |-> 0]

\* the first attempt succeeded, every table was created and filled, the server listens
Listening ==
    [pc |-> "listening", retryCount |-> 0, attempts |-> 1, timer |-> 0, waited |-> <<>>,
     connected |-> TRUE, k |-> Len(tables) + 1, existing |-> {}, created |-> DOMAIN tables,
     goldPrice |-> DefaultGoldPrice, i |-> Len(SampleProducts) + 1]

\* the row initializeDefaultData inserts into an empty gold_prices
DefaultGoldRows == <<[price_per_gram |-> DefaultGoldPrice, updated_at |-> 0]>>

\* the row initializeDefaultData inserts for a sample product, priced at goldPrice
SampleRow(product, goldPrice) ==
    [weight         |-> product.weight,
     carat          |-> product.carat,
     making_charges |-> product.making_charges,
     profit_margin  |-> product.profit_margin,
     selling_price  |-> ToDecimal(calculatePrice(product, Decimal(goldPrice, CentScale)).sellingPrice,
                                  CentScale).v,
     is_active      |-> TRUE]

\* the products table after initializeDefaultData has run on an empty store
DefaultProducts == [i \in DOMAIN SampleProducts |-> SampleRow(SampleProducts[i], DefaultGoldPrice)]

(***************************************************************************)
(* Handlers: one action per stretch of code between two awaits             *)
(***************************************************************************)
NoRes == [status |-> 0, updated_products |-> 0, details |-> <<>>, price |-> 0, id |-> 0]
NoLocals ==
    [batch |-> <<>>, k |-> 0, goldPrice |-> 0, sellingPrice |-> Zero(FALSE), results |-> <<>>]

\* what the properties remember of the request answered last before a request arrived
NoPrev == [kind |-> "none", price_per_gram |-> Absent, status |-> 0]

\* no record of the store a request found
NoSnapshot == [gold_prices |-> <<>>, products |-> <<>>, price_history |-> <<>>]

IdleReq ==
    [pc |-> "idle", kind |-> "none", seq |-> 0, body |-> NoBody, loc |-> NoLocals,
     res |-> NoRes, pre |-> NoSnapshot, prev |-> NoPrev]

\* the server listens after a first start on an empty store that met no error
Init ==
    /\ gold_prices = DefaultGoldRows
    /\ products = DefaultProducts
    /\ price_history = <<>>
    /\ now = 0
    /\ req = [r \in Slots |-> IdleReq]
    /\ db = <<>>
    /\ started = 0
    /\ gold_at_write = [i \in DOMAIN SampleProducts |-> DefaultGoldPrice]
    /\ calc = NoCalc
    /\ boot = Listening

AllIdle == \A r \in Slots : req[r].pc = "idle"

UnchangedStore == UNCHANGED <<gold_prices, products, price_history, gold_at_write>>

\* the request received last, once it is answered (nothing is received after it)
LastAnswered ==
    IF \E q \in Slots : req[q].seq = started /\ req[q].kind # "none" /\ req[q].pc = "idle"
    THEN LET q == CHOOSE q \in Slots : req[q].seq = started /\ req[q].kind # "none"
         IN  [kind |-> req[q].kind, price_per_gram |-> req[q].body.price_per_gram,
              status |-> req[q].res.status]
    ELSE NoPrev

\* a request arrives and takes the first free slot r: the handler's locals are fresh.
\* pre remembers the store the request found
Receive(r, kind, body, pc, res) ==
    /\ req[r].pc = "idle"
    /\ \A q \in Slots : q < r => req[q].pc # "idle"
    /\ started < MaxOps
    /\ started' = started + 1
    /\ req' = [req EXCEPT ![r] = [pc |-> pc, kind |-> kind, seq |-> started + 1, body |-> body,
                                  loc |-> NoLocals, res |-> res,
                                  pre |-> Snapshot,
                                  prev |-> LastAnswered]]
    /\ UNCHANGED <<now, calc, boot>>
    /\ UnchangedStore

\* res.json(...) / res.status(...).json(...): the handler ends
Respond(r, res) ==
    req' = [req EXCEPT ![r].pc = "idle", ![r].loc = NoLocals, ![r].res = res]

\* catch (error) { res.status(500).json(...) }
InternalError == [NoRes EXCEPT !.status = 500]

\* the store's clock advances; only the INSERT of a gold price reads it (updated_at is
\* DEFAULT CURRENT_TIMESTAMP), so it is stepped while such a statement is pending
Tick ==
    /\ now < MaxTime
    /\ \E r \in Slots : req[r].pc = "g_insert"
    /\ now' = now + 1
    /\ UNCHANGED <<gold_prices, products, price_history, req, db, started, gold_at_write, calc, boot>>

\* the statement the connection runs may fail: the handler's catch answers 500
DbError(r) ==
    /\ db # <<>> /\ r = Head(db)
    /\ Respond(r, InternalError)
    /\ db' = Tail(db)
    /\ UNCHANGED <<now, started, calc, boot>>
    /\ UnchangedStore

(***************************************************************************)
(* POST /api/gold-price                                                    *)
(***************************************************************************)
\* !price_per_gram || isNaN(price_per_gram)
InvalidPrice(p) == ~ToBoolean(p) \/ isNaN(p)

\* ((new - old) / old * 100).toFixed(2) + '%' for the Number new and the stored price
\* old: the sign and the digits, or 'NaN', 'Infinity', '-Infinity' after a division by 0
PercentChange(old, new) ==
    toFixed(Times(Divide(Minus(new, Decimal(old, CentScale)), Decimal(old, CentScale)),
                  FromInt(100)),
            2)

postGoldPrice_receive(r, p) ==
    LET body == [NoBody EXCEPT !.price_per_gram = p]
    IN  IF InvalidPrice(p)
        THEN Receive(r, "gold", body, "idle", [NoRes EXCEPT !.status = 400])
        ELSE Receive(r, "gold", body, "g_insert", NoRes)

\* INSERT INTO gold_prices (price_per_gram, carat) VALUES (?, ?) with
\* parseFloat(price_per_gram)
postGoldPrice_insert(r) ==
    /\ req[r].pc = "g_insert"
    /\ LET price == ToDecimal(parseFloat(req[r].body.price_per_gram), CentScale)
       IN  IF price.ok
           THEN /\ gold_prices' = Append(gold_prices,
                                         [price_per_gram |-> price.v, updated_at |-> now])
                /\ req' = [req EXCEPT ![r].pc = "g_select"]
           ELSE /\ Respond(r, InternalError)
                /\ UNCHANGED gold_prices
    /\ UNCHANGED <<products, price_history, now, started, gold_at_write, calc, boot>>

\* the response once the loop over products has ended
GoldPriceResult(results) ==
    [NoRes EXCEPT !.status = 200, !.updated_products = Len(results), !.details = results]

\* SELECT * FROM products WHERE is_active = TRUE, then the loop is entered
postGoldPrice_select(r) ==
    /\ req[r].pc = "g_select"
    /\ LET batch == activeProducts
       IN  IF batch = <<>>
           THEN Respond(r, GoldPriceResult(<<>>))
           ELSE req' = [req EXCEPT ![r].pc = "g_history", ![r].loc.batch = batch, ![r].loc.k = 1]
    /\ UNCHANGED <<now, started, calc, boot>>
    /\ UnchangedStore

\* the loop body with the new price added to the stored one instead of replacing it
postGoldPrice_history_accumulate(r) ==
    /\ req[r].pc = "g_history"
    /\ LET product   == req[r].loc.batch[req[r].loc.k]
           priceInfo == calculatePrice(product.row, parseFloat(req[r].body.price_per_gram))
           summed    == Plus(priceInfo.sellingPrice,
                             Decimal(product.row.selling_price, CentScale))
           new       == ToDecimal(summed, CentScale)
           gold      == SqlDecimal(req[r].body.price_per_gram)
       IN  IF new.ok /\ gold.ok
           THEN /\ price_history' = Append(price_history, priceHistoryRow(product, new.v, gold.v))
                /\ req' = [req EXCEPT ![r].pc = "g_update", ![r].loc.sellingPrice = summed]
           ELSE /\ Respond(r, InternalError)
                /\ UNCHANGED price_history
    /\ UNCHANGED <<gold_prices, products, now, started, gold_at_write, calc, boot>>

\* the loop body up to its first await: calculatePrice, INSERT INTO price_history
\* with [product.id, product.selling_price, priceInfo.sellingPrice, price_per_gram]
postGoldPrice_history(r) ==
    /\ req[r].pc = "g_history"
    /\ LET product   == req[r].loc.batch[req[r].loc.k]
           priceInfo == calculatePrice(product.row, parseFloat(req[r].body.price_per_gram))
           new       == ToDecimal(priceInfo.sellingPrice, CentScale)
           gold      == SqlDecimal(req[r].body.price_per_gram)
       IN  IF new.ok /\ gold.ok
           THEN /\ price_history' = Append(price_history, priceHistoryRow(product, new.v, gold.v))
                /\ req' = [req EXCEPT ![r].pc = "g_update",
                                      ![r].loc.sellingPrice = priceInfo.sellingPrice]
           ELSE /\ Respond(r, InternalError)
                /\ UNCHANGED price_history
    /\ UNCHANGED <<gold_prices, products, now, started, gold_at_write, calc, boot>>

\* UPDATE products SET selling_price = ?, updated_at = NOW() WHERE id = ?,
\* updateResults.push(...), and the next turn of the loop or the response
postGoldPrice_update(r) ==
    /\ req[r].pc = "g_update"
    /\ LET product == req[r].loc.batch[req[r].loc.k]
           new     == ToDecimal(req[r].loc.sellingPrice, CentScale)
           results == Append(req[r].loc.results,
                             [id |-> product.id,
                              old_price |-> product.row.selling_price,
                              new_price |-> new.v,
                              change |-> PercentChange(product.row.selling_price,
                                                       req[r].loc.sellingPrice)])
       IN  IF new.ok
           THEN /\ products' = [products EXCEPT ![product.id].selling_price = new.v]
                /\ gold_at_write' = [gold_at_write EXCEPT ![product.id] = CurrentGold]
                /\ IF req[r].loc.k = Len(req[r].loc.batch)
                   THEN Respond(r, GoldPriceResult(results))
                   ELSE req' = [req EXCEPT ![r].pc = "g_history", ![r].loc.k = @ + 1,
                                           ![r].loc.results = results,
                                           ![r].loc.sellingPrice = Zero(FALSE)]
           ELSE /\ Respond(r, InternalError)
                /\ UNCHANGED <<products, gold_at_write>>
    /\ UNCHANGED <<gold_prices, price_history, now, started, calc, boot>>

(***************************************************************************)
(* GET /api/gold-price                                                     *)
(***************************************************************************)
getGoldPrice_receive(r) == Receive(r, "get", NoBody, "q_price", NoRes)

\* rows[0] || { price_per_gram: 0, ... }
getGoldPrice_select(r) ==
    /\ req[r].pc = "q_price"
    /\ \E row \in GoldRowChoices :
          Respond(r, [NoRes EXCEPT !.status = 200, !.id = row,
                                   !.price = IF row = 0 THEN 0 ELSE gold_prices[row].price_per_gram])
    /\ UNCHANGED <<now, started, calc, boot>>
    /\ UnchangedStore

(***************************************************************************)
(* POST /api/products                                                      *)
(***************************************************************************)
postProducts_receive(r, body) ==
    IF ~TruthyStr(body.name) \/ ~TruthyNum(body.weight) \/ ~TruthyStr(body.carat)
    THEN Receive(r, "create", body, "idle", [NoRes EXCEPT !.status = 400])
    ELSE Receive(r, "create", body, "c_price", NoRes)

\* SELECT price_per_gram FROM gold_prices ORDER BY updated_at DESC LIMIT 1,
\* then calculatePrice
postProducts_price(r) ==
    /\ req[r].pc = "c_price"
    /\ \E row \in GoldRowChoices :
          LET body      == req[r].body
              goldPrice == goldPriceOf(row)
              priceInfo == calculatePrice(
                               [weight |-> body.weight[1], carat |-> body.carat[1],
                                making_charges |-> OrElse(body.making_charges, DefaultMakingCharges),
                                profit_margin |-> OrElse(body.profit_margin, DefaultProfitMargin)],
                               Decimal(goldPrice, CentScale))
          IN  req' = [req EXCEPT ![r].pc = "c_insert", ![r].loc.goldPrice = goldPrice,
                                 ![r].loc.sellingPrice = priceInfo.sellingPrice]
    /\ UNCHANGED <<now, started, calc, boot>>
    /\ UnchangedStore

\* INSERT INTO products (...), and the response
postProducts_insert(r) ==
    /\ req[r].pc = "c_insert"
    /\ LET body == req[r].body
           new  == ToDecimal(req[r].loc.sellingPrice, CentScale)
       IN  IF new.ok
           THEN /\ products' = Append(products,
                                  [weight         |-> body.weight[1],
                                   carat          |-> body.carat[1],
                                   making_charges |-> OrElse(body.making_charges, DefaultMakingCharges),
                                   profit_margin  |-> OrElse(body.profit_margin, DefaultProfitMargin),
                                   selling_price  |-> new.v,
                                   is_active      |-> TRUE])
                /\ gold_at_write' = Append(gold_at_write, CurrentGold)
                /\ Respond(r, [NoRes EXCEPT !.status = 200, !.id = Len(products) + 1,
                                            !.price = new.v])
           ELSE /\ Respond(r, InternalError)
                /\ UNCHANGED <<products, gold_at_write>>
    /\ UNCHANGED <<gold_prices, price_history, now, started, calc, boot>>

(***************************************************************************)
(* PUT /api/products/:id                                                   *)
(***************************************************************************)
putProduct_receive(r, id, body) ==
    Receive(r, "update", [body EXCEPT !.id = id], "u_select", NoRes)

\* weight || carat || making_charges || profit_margin
RecalculationRequested(body) ==
    \/ TruthyNum(body.weight)
    \/ TruthyStr(body.carat)
    \/ TruthyNum(body.making_charges)
    \/ TruthyNum(body.profit_margin)

\* db.execute of the UPDATE throws before the statement is sent when one of its bind
\* parameters is undefined: a field the body leaves out
BindsUndefined(body) == body.undefined # {}

\* the SELECT with the empty result answered as a success
putProduct_select_found(r) ==
    /\ req[r].pc = "u_select"
    /\ LET id == req[r].body.id
       IN  IF id \notin DOMAIN products
           THEN Respond(r, [NoRes EXCEPT !.status = 200])
           ELSE LET product == [id |-> id, row |-> products[id]]
                IN  IF ~RecalculationRequested(req[r].body) /\ BindsUndefined(req[r].body)
                    THEN Respond(r, InternalError)
                    ELSE req' = [req EXCEPT
                                    ![r].pc = IF RecalculationRequested(req[r].body)
                                              THEN "u_price" ELSE "u_update",
                                    ![r].loc.batch = <<product>>,
                                    ![r].loc.k = 1,
                                    ![r].loc.sellingPrice =
                                        Decimal(product.row.selling_price, CentScale)]
    /\ UNCHANGED <<now, started, calc, boot>>
    /\ UnchangedStore

\* SELECT * FROM products WHERE id = ?, then let sellingPrice = product.selling_price;
\* without a recalculation the UPDATE is issued next, or refused by the driver
putProduct_select(r) ==
    /\ req[r].pc = "u_select"
    /\ LET id == req[r].body.id
       IN  IF id \notin DOMAIN products
           THEN Respond(r, [NoRes EXCEPT !.status = 404])
           ELSE LET product == [id |-> id, row |-> products[id]]
                IN  IF ~RecalculationRequested(req[r].body) /\ BindsUndefined(req[r].body)
                    THEN Respond(r, InternalError)
                    ELSE req' = [req EXCEPT
                                    ![r].pc = IF RecalculationRequested(req[r].body)
                                              THEN "u_price" ELSE "u_update",
                                    ![r].loc.batch = <<product>>,
                                    ![r].loc.k = 1,
                                    ![r].loc.sellingPrice =
                                        Decimal(product.row.selling_price, CentScale)]
    /\ UNCHANGED <<now, started, calc, boot>>
    /\ UnchangedStore

\* SELECT price_per_gram FROM gold_prices ORDER BY updated_at DESC LIMIT 1,
\* then calculatePrice on the merged attributes
putProduct_price(r) ==
    /\ req[r].pc = "u_price"
    /\ \E row \in GoldRowChoices :
          LET body      == req[r].body
              product   == req[r].loc.batch[1].row
              goldPrice == goldPriceOf(row)
              priceInfo == calculatePrice(
                               [weight |-> OrElse(body.weight, product.weight),
                                carat |-> OrElseStr(body.carat, product.carat),
                                making_charges |-> OrElse(body.making_charges, product.making_charges),
                                profit_margin |-> OrElse(body.profit_margin, product.profit_margin)],
                               Decimal(goldPrice, CentScale))
          IN  req' = [req EXCEPT ![r].pc = "u_history", ![r].loc.goldPrice = goldPrice,
                                 ![r].loc.sellingPrice = priceInfo.sellingPrice]
    /\ UNCHANGED <<now, started, calc, boot>>
    /\ UnchangedStore

\* INSERT INTO price_history (...) with [product.id, product.selling_price,
\* sellingPrice, goldPrice]; the UPDATE is issued next, or refused by the driver
putProduct_history(r) ==
    /\ req[r].pc = "u_history"
    /\ LET product == req[r].loc.batch[1]
           new     == ToDecimal(req[r].loc.sellingPrice, CentScale)
       IN  IF new.ok
           THEN /\ price_history' = Append(price_history,
                                           priceHistoryRow(product, new.v, req[r].loc.goldPrice))
                /\ IF BindsUndefined(req[r].body)
                   THEN Respond(r, InternalError)
                   ELSE req' = [req EXCEPT ![r].pc = "u_update"]
           ELSE /\ Respond(r, InternalError)
                /\ UNCHANGED price_history
    /\ UNCHANGED <<gold_prices, products, now, started, gold_at_write, calc, boot>>

\* UPDATE products SET ... COALESCE(?, column) ..., selling_price = ?, updated_at = NOW(),
\* and the response
putProduct_update(r) ==
    /\ req[r].pc = "u_update"
    /\ LET body == req[r].body
           id   == body.id
           old  == products[id]
           new  == ToDecimal(req[r].loc.sellingPrice, CentScale)
       IN  IF new.ok
           THEN /\ products' = [products EXCEPT ![id] =
                                  [weight         |-> COALESCE(body.weight, old.weight),
                                   carat          |-> COALESCE(body.carat, old.carat),
                                   making_charges |-> COALESCE(body.making_charges, old.making_charges),
                                   profit_margin  |-> COALESCE(body.profit_margin, old.profit_margin),
                                   selling_price  |-> new.v,
                                   is_active      |-> COALESCE(body.is_active, old.is_active)]]
                /\ gold_at_write' = [gold_at_write EXCEPT ![id] = CurrentGold]
                /\ Respond(r, [NoRes EXCEPT !.status = 200, !.price = new.v])
           ELSE /\ Respond(r, InternalError)
                /\ UNCHANGED <<products, gold_at_write>>
    /\ UNCHANGED <<gold_prices, price_history, now, started, calc, boot>>

(***************************************************************************)
(* Specifications                                                          *)
(***************************************************************************)
\* the ids a PUT names: the first product, and an id no product has
UpdateIds == {1, Len(products) + 1}

\* a request arrives on slot r, its body drawn from the given inputs; the handler runs
\* to its first db.execute, whose statement joins the connection's queue, or answers
\* without one
ReceiveAny(r, prices, creates, ids, updates) ==
    /\ \/ \E p \in prices : postGoldPrice_receive(r, p)
       \/ getGoldPrice_receive(r)
       \/ \E body \in creates : postProducts_receive(r, body)
       \/ \E id \in ids, body \in updates : putProduct_receive(r, id, body)
    /\ db' = IF req'[r].pc = "idle" THEN db ELSE Append(db, r)

\* the connection runs the statement at the head of its queue, that of slot r; the
\* handler resumes and runs to its next db.execute, whose statement goes to the end of
\* the queue, or to its response
Step(r) ==
    /\ db # <<>> /\ r = Head(db)
    /\ \/ postGoldPrice_insert(r)
       \/ postGoldPrice_select(r)
       \/ postGoldPrice_history(r)
       \/ postGoldPrice_update(r)
       \/ getGoldPrice_select(r)
       \/ postProducts_price(r)
       \/ postProducts_insert(r)
       \/ putProduct_select(r)
       \/ putProduct_price(r)
       \/ putProduct_history(r)
       \/ putProduct_update(r)
    /\ db' = IF req'[r].pc = "idle" THEN Tail(db) ELSE Append(Tail(db), r)

\* the inputs of requests whose awaits interleave: a rejected price and two positive
\* ones, one new product, and a rename and a new weight for product 1
OverlapPrices == {Num(0), Num(1), Num(310000)}

OverlapCreates == {[NoBody EXCEPT !.name = Some("Ring"), !.weight = Some(3500), !.carat = Some("18K"),
                                  !.making_charges = Some(0), !.profit_margin = Some(2000)]}

OverlapUpdates == {[NoBody EXCEPT !.name = Some("Renamed")], [NoBody EXCEPT !.weight = Some(400)]}

\* requests are served as they come: their statements take turns on the connection
Next ==
    \/ Tick
    \/ \E r \in Slots : ReceiveAny(r, OverlapPrices, OverlapCreates, {1}, OverlapUpdates)
    \/ \E r \in Slots : Step(r)

Spec == Init /\ [][Next]_vars

\* requests arrive one at a time: each runs to its response before the next
NextSeq ==
    \/ Tick
    \/ \E r \in Slots : AllIdle /\ ReceiveAny(r, GoldInputs, CreateBodies, UpdateIds, UpdateBodies)
    \/ \E r \in Slots : Step(r) \/ DbError(r)

SpecSeq == Init /\ [][NextSeq]_vars

(***************************************************************************)
(* calculatePrice called on its own                                        *)
(***************************************************************************)
UnchangedServer ==
    UNCHANGED <<gold_prices, products, price_history, now, req, db, started, gold_at_write>>

InitCalc ==
    /\ gold_prices = DefaultGoldRows
    /\ products = DefaultProducts
    /\ price_history = <<>>
    /\ now = 0
    /\ req = [r \in Slots |-> IdleReq]
    /\ db = <<>>
    /\ started = 0
    /\ gold_at_write = [i \in DOMAIN SampleProducts |-> DefaultGoldPrice]
    /\ calc \in CalcInputs
    /\ boot = Listening

\* calculatePrice(product, low)
calculatePrice_low ==
    /\ calc.pc = "called"
    /\ calc' = [calc EXCEPT !.pc = "half",
                            !.atLow = calculatePrice(calc.product, Decimal(calc.low, CentScale))]
    /\ UNCHANGED boot
    /\ UnchangedServer

\* calculatePrice(product, high)
calculatePrice_high ==
    /\ calc.pc = "half"
    /\ calc' = [calc EXCEPT !.pc = "returned",
                            !.atHigh = calculatePrice(calc.product, Decimal(calc.high, CentScale))]
    /\ UNCHANGED boot
    /\ UnchangedServer

NextCalc ==
    \/ calculatePrice_low
    \/ calculatePrice_high

SpecCalc == InitCalc /\ [][NextCalc]_vars

(***************************************************************************)
(* Startup: startServer awaits connectDB, then listens                     *)
(***************************************************************************)
\* startServer is called.  The database may hold any of the tables already, empty, or
\* all three with the rows an earlier start of the server left in them.
InitBoot ==
    /\ \E existing \in SUBSET DOMAIN tables, filled \in BOOLEAN :
          /\ filled => existing = DOMAIN tables
          /\ boot = [Booting EXCEPT !.existing = existing]
          /\ gold_prices = IF filled THEN DefaultGoldRows ELSE <<>>
          /\ products = IF filled THEN DefaultProducts ELSE <<>>
          /\ gold_at_write = IF filled THEN [i \in DOMAIN SampleProducts |-> DefaultGoldPrice]
                             ELSE <<>>
    /\ price_history = <<>>
    /\ now = 0
    /\ req = [r \in Slots |-> IdleReq]
    /\ db = <<>>
    /\ started = 0
    /\ calc = NoCalc

\* the catch block of connectDB: retryCount++, then either the throw that startServer
\* answers with process.exit(1), or the timer of the next attempt
connectDB_catch(b) ==
    LET retryCount == b.retryCount + 1
    IN  IF retryCount = maxRetries
        THEN [b EXCEPT !.pc = "exited", !.retryCount = retryCount]
        ELSE [b EXCEPT !.pc = "delay", !.retryCount = retryCount,
                       !.timer = delay(retryCount),
                       !.waited = Append(b.waited, delay(retryCount))]

\* while (retryCount < maxRetries): db = await mysql.createConnection(dbConfig)
connectDB_createConnection ==
    /\ boot.pc = "connect"
    /\ boot.retryCount < maxRetries
    /\ \E ok \in BOOLEAN :
          LET tried == [boot EXCEPT !.attempts = boot.attempts + 1]
          IN  boot' = IF ok THEN [tried EXCEPT !.pc = "ping"] ELSE connectDB_catch(tried)
    /\ UNCHANGED calc
    /\ UnchangedServer

\* await db.execute('SELECT 1')
connectDB_ping ==
    /\ boot.pc = "ping"
    /\ \E ok \in BOOLEAN :
          boot' = IF ok THEN [boot EXCEPT !.pc = "tables", !.connected = TRUE, !.k = 1]
                       ELSE connectDB_catch(boot)
    /\ UNCHANGED calc
    /\ UnchangedServer

\* await new Promise(resolve => setTimeout(resolve, delay)): a second passes
setTimeout_wait ==
    /\ boot.pc = "delay"
    /\ boot.timer > 0
    /\ boot' = [boot EXCEPT !.timer = boot.timer - 1]
    /\ UNCHANGED calc
    /\ UnchangedServer

\* the timer fires: the loop tests retryCount < maxRetries again
setTimeout_resolve ==
    /\ boot.pc = "delay"
    /\ boot.timer = 0
    /\ boot' = [boot EXCEPT !.pc = "connect"]
    /\ UNCHANGED calc
    /\ UnchangedServer

\* createTables: one turn of its loop, CREATE TABLE IF NOT EXISTS; an error is logged
\* and the loop goes on.  The tables of boot.existing were there before the start.
createTables_execute ==
    /\ boot.pc = "tables"
    /\ \E ok \in BOOLEAN :
          boot' = [boot EXCEPT !.k = boot.k + 1,
                               !.created = IF ok THEN boot.created \cup {boot.k} ELSE boot.created,
                               !.pc = IF boot.k = Len(tables) THEN "data" ELSE "tables"]
    /\ UNCHANGED calc
    /\ UnchangedServer

\* the catch block of initializeDefaultData: the error is logged, connectDB goes on
initializeDefaultData_catch == [boot EXCEPT !.pc = "returned"]

\* SELECT COUNT(*) as count FROM gold_prices; it fails when the table is missing
initializeDefaultData_countPrices ==
    /\ boot.pc = "data"
    /\ \E ok \in {b \in BOOLEAN : b => 1 \in boot.existing \cup boot.created} :
          boot' = IF ~ok THEN initializeDefaultData_catch
                  ELSE IF Len(gold_prices) = 0 THEN [boot EXCEPT !.pc = "data_price"]
                  ELSE [boot EXCEPT !.pc = "data_products"]
    /\ UNCHANGED calc
    /\ UnchangedServer

\* INSERT INTO gold_prices (price_per_gram) VALUES (3000.00)
initializeDefaultData_insertPrice ==
    /\ boot.pc = "data_price"
    /\ \E ok \in BOOLEAN :
          IF ok
          THEN /\ gold_prices' = Append(gold_prices,
                                        [price_per_gram |-> DefaultGoldPrice, updated_at |-> now])
               /\ boot' = [boot EXCEPT !.pc = "data_products"]
          ELSE /\ boot' = initializeDefaultData_catch
               /\ UNCHANGED gold_prices
    /\ UNCHANGED <<products, price_history, now, req, db, started, gold_at_write, calc>>

\* SELECT COUNT(*) as count FROM products; it fails when the table is missing
initializeDefaultData_countProducts ==
    /\ boot.pc = "data_products"
    /\ \E ok \in {b \in BOOLEAN : b => 2 \in boot.existing \cup boot.created} :
          boot' = IF ~ok THEN initializeDefaultData_catch
                  ELSE IF Len(products) = 0 THEN [boot EXCEPT !.pc = "data_current"]
                  ELSE [boot EXCEPT !.pc = "returned"]
    /\ UNCHANGED calc
    /\ UnchangedServer

\* SELECT price_per_gram FROM gold_prices ORDER BY updated_at DESC LIMIT 1, and
\* goldPrice = currentPrice[0]?.price_per_gram || 3000; the loop is entered
initializeDefaultData_selectPrice ==
    /\ boot.pc = "data_current"
    /\ \/ \E row \in GoldRowChoices :
             boot' = [boot EXCEPT !.pc = "data_insert", !.goldPrice = goldPriceOf(row), !.i = 1]
       \/ boot' = initializeDefaultData_catch
    /\ UNCHANGED calc
    /\ UnchangedServer

\* one turn of the loop over sampleProducts: calculatePrice, INSERT INTO products
initializeDefaultData_insertProduct ==
    /\ boot.pc = "data_insert"
    /\ \E ok \in BOOLEAN :
          IF ok
          THEN /\ products' = Append(products, SampleRow(SampleProducts[boot.i], boot.goldPrice))
               /\ gold_at_write' = Append(gold_at_write, CurrentGold)
               /\ boot' = [boot EXCEPT !.i = boot.i + 1,
                                       !.pc = IF boot.i = Len(SampleProducts)
                                              THEN "returned" ELSE "data_insert"]
          ELSE /\ boot' = initializeDefaultData_catch
               /\ UNCHANGED <<products, gold_at_write>>
    /\ UNCHANGED <<gold_prices, price_history, now, req, db, started, calc>>

\* startServer after await connectDB(): app.listen(PORT, ...)
startServer_listen ==
    /\ boot.pc = "returned"
    /\ boot' = [boot EXCEPT !.pc = "listening"]
    /\ UNCHANGED calc
    /\ UnchangedServer

NextBoot ==
    \/ connectDB_createConnection
    \/ connectDB_ping
    \/ setTimeout_wait
    \/ setTimeout_resolve
    \/ createTables_execute
    \/ initializeDefaultData_countPrices
    \/ initializeDefaultData_insertPrice
    \/ initializeDefaultData_countProducts
    \/ initializeDefaultData_selectPrice
    \/ initializeDefaultData_insertProduct
    \/ startServer_listen

SpecBoot == InitBoot /\ [][NextBoot]_vars

(***************************************************************************)
(* Properties                                                              *)
(***************************************************************************)
\* slot r served the request received last, it has been answered, and
\* nothing is in flight: the store is as that request left it
LastEnded(r) == AllIdle /\ req[r].seq = started /\ req[r].kind # "none"

\* the request on slot r carries a finite positive price: a JSON number above 0
PositivePrice(r) == req[r].body.price_per_gram.t = "num" /\ req[r].body.price_per_gram.v > 0

EndedOk(r, kind) == LastEnded(r) /\ req[r].kind = kind /\ req[r].res.status = 200

ActiveIds(rows) == {p \in DOMAIN rows : rows[p].is_active}

\* the history rows of product p added after the first n rows
NewEntries(n, p) ==
    {i \in DOMAIN price_history : i > n /\ price_history[i].product_id = p}

\* the selling price of row at the Number goldPricePerGram, as a DECIMAL(10,2) column
\* holds it
StoredPrice(row, goldPricePerGram) ==
    ToDecimal(calculatePrice(row, goldPricePerGram).sellingPrice, CentScale)

\* row.selling_price is the price of row at the stored gold price goldPrice
PricedAt(row, goldPrice) ==
    LET price == StoredPrice(row, Decimal(goldPrice, CentScale))
    IN  price.ok /\ row.selling_price = price.v

IsPrefix(s, t) == Len(s) <= Len(t) /\ SubSeq(t, 1, Len(s)) = s

\* C1: a POST /api/gold-price that fails on a persistence call leaves the
\* store as it was before the call: no gold price row, no product price and
\* no history row added or changed.
C1_AllOrNothing ==
    \A r \in Slots :
        (LastEnded(r) /\ req[r].kind = "gold" /\ PositivePrice(r) /\ req[r].res.status = 500)
            => Snapshot = req[r].pre

\* C2: a POST /api/gold-price whose price is not a finite positive number is
\* answered 400 before anything is persisted, and the store is unchanged.
C2_InvalidPriceRejected ==
    \A r \in Slots :
        (req[r].kind = "gold" /\ ~PositivePrice(r))
            => /\ req[r].pc = "idle"
               /\ req[r].res.status = 400
               /\ LastEnded(r) => Snapshot = req[r].pre

\* the rows of a table, in any order
Rows(table) == {table[i] : i \in DOMAIN table}

\* the products and the history rows that a POST /api/gold-price with price p leaves
\* when it runs from its first statement to its last with no other request in between,
\* on the products and the history rows s
SerialGoldUpdate(s, p) ==
    LET G        == parseFloat(p)
        new(i)   == StoredPrice(s.products[i], G).v
        entry(i) == [product_id |-> i, old_price |-> s.products[i].selling_price,
                     new_price |-> new(i), gold_price_per_gram |-> SqlDecimal(p).v]
    IN  [products |-> [i \in DOMAIN s.products |->
                          IF s.products[i].is_active
                          THEN [s.products[i] EXCEPT !.selling_price = new(i)]
                          ELSE s.products[i]],
         entries  |-> s.entries \cup {entry(i) : i \in ActiveIds(s.products)}]

\* C3: when two POST /api/gold-price requests that were in flight together have both
\* been answered 200, the products and the history rows are those of running the two
\* one after the other in one of the two orders, and every active product is priced
\* from the current gold price.  (Stated for two positive prices, the only two
\* requests received.)
C3_GoldUpdatesSerializable ==
    \A a, b \in Slots :
        (/\ AllIdle /\ started = 2
         /\ req[a].seq = 1 /\ req[b].seq = 2
         /\ \A r \in {a, b} :
                req[r].kind = "gold" /\ req[r].res.status = 200 /\ PositivePrice(r))
            => LET first  == req[a].body.price_per_gram
                   second == req[b].body.price_per_gram
                   before == [products |-> req[a].pre.products,
                              entries  |-> Rows(req[a].pre.price_history)]
               IN  /\ [products |-> products, entries |-> Rows(price_history)]
                          \in {SerialGoldUpdate(SerialGoldUpdate(before, first), second),
                               SerialGoldUpdate(SerialGoldUpdate(before, second), first)}
                   /\ \A p \in ActiveIds(products) : PricedAt(products[p], CurrentGold)

\* C4: a POST /api/gold-price answered 200 recomputed exactly the products
\* that were active: the reported count is the number of active products,
\* each of them is priced from the new gold price, and every inactive
\* product keeps its row and gets no history row.
C4_ActiveOnlyBatch ==
    \A r \in Slots :
        EndedOk(r, "gold") =>
            LET pre    == req[r].pre
                active == ActiveIds(pre.products)
                G      == parseFloat(req[r].body.price_per_gram)
            IN  /\ DOMAIN products = DOMAIN pre.products
                /\ req[r].res.updated_products = Cardinality(active)
                /\ {req[r].res.details[i].id : i \in DOMAIN req[r].res.details} = active
                /\ \A p \in active :
                      /\ products[p].selling_price = StoredPrice(pre.products[p], G).v
                      /\ Cardinality(NewEntries(Len(pre.price_history), p)) = 1
                /\ \A p \in DOMAIN pre.products \ active :
                      /\ products[p] = pre.products[p]
                      /\ NewEntries(Len(pre.price_history), p) = {}

\* C4 witness: a batch has run over a store with an active and an inactive product
C4_Witness ==
    \E r \in Slots :
        /\ EndedOk(r, "gold")
        /\ ActiveIds(req[r].pre.products) # {}
        /\ DOMAIN req[r].pre.products \ ActiveIds(req[r].pre.products) # {}

\* C5: with every request run to its response before the next, each
\* product's stored selling_price is calculatePrice of its stored attributes
\* and the gold price that was current when its row was last written.
C5_RoundTrip ==
    AllIdle => \A p \in DOMAIN products : PricedAt(products[p], gold_at_write[p])

NoTies ==
    \A i, j \in DOMAIN gold_prices :
        i # j => gold_prices[i].updated_at # gold_prices[j].updated_at

\* the id of the row a POST /api/products or a PUT /api/products/:id on slot r writes
WrittenId(r) == IF req[r].kind = "create" THEN Len(products') ELSE req[r].body.id

\* in this step slot r writes to an active product a selling_price it computed: the
\* INSERT of a POST /api/products, or the UPDATE of a PUT /api/products/:id that
\* recalculated
WritesPrice(r) ==
    /\ \/ req[r].pc = "c_insert"
       \/ req[r].pc = "u_update" /\ RecalculationRequested(req[r].body)
    /\ req'[r].pc = "idle"
    /\ req'[r].res.status = 200
    /\ products'[WrittenId(r)].is_active


\* the requests received are one POST /api/gold-price with a positive price and one
\* POST /api/products or PUT /api/products/:id, in flight together, both answered 200
OverlapAnswered ==
    /\ AllIdle /\ started = 2
    /\ \A r \in Slots : req[r].res.status = 200
    /\ \A r \in Slots : req[r].kind = "gold" => PositivePrice(r)
    /\ {req[r].kind : r \in Slots} \in {{"gold", "create"}, {"gold", "update"}}

\* the selling_price of product p in rows is calculatePrice at the gold price goldPrice,
\* of the row as it is in rows or as it was in one of snapshots
ComputedFrom(rows, snapshots, p, goldPrice) ==
    \/ PricedAt(rows[p], goldPrice)
    \/ \E before \in snapshots :
           /\ p \in DOMAIN before
           /\ PricedAt([before[p] EXCEPT !.selling_price = rows[p].selling_price], goldPrice)

\* C6: the selling_price a POST /api/products or a recalculating PUT /api/products/:id
\* writes to an active product is calculatePrice of the row it writes at the gold price
\* that is current when it writes it; and once such a request and a POST /api/gold-price that
\* were in flight together have both been answered 200, the price of every active
\* product was computed from the current gold price, from the product's attributes as
\* they are or as they were when one of the two requests arrived.  (Stated for runs in
\* which no two gold prices share a timestamp.)
C6_NoStalePriceAfterOverlap ==
    [][ NoTies' =>
          /\ \A r \in Slots :
                 WritesPrice(r) => PricedAt(products'[WrittenId(r)], CurrentGold')
          /\ (~AllIdle /\ OverlapAnswered') =>
                 \A p \in ActiveIds(products') :
                     ComputedFrom(products', {req'[r].pre.products : r \in Slots},
                                  p, CurrentGold')
      ]_vars

\* does body change one of the four pricing attributes of row?
PricingChange(body, row) ==
    \/ body.weight # Null /\ body.weight[1] # row.weight
    \/ body.carat # Null /\ body.carat[1] # row.carat
    \/ body.making_charges # Null /\ body.making_charges[1] # row.making_charges
    \/ body.profit_margin # Null /\ body.profit_margin[1] # row.profit_margin

\* C7: a PUT /api/products/:id answered 200 recomputed the price from the
\* current gold price and appended one history row if and only if it
\* changed weight, carat, making_charges or profit_margin; otherwise the
\* price and the history are as before.
C7_RecomputeIffPricingChange ==
    \A r \in Slots :
        EndedOk(r, "update") =>
            LET pre == req[r].pre
                id  == req[r].body.id
            IN  IF PricingChange(req[r].body, pre.products[id])
                THEN /\ PricedAt(products[id], CurrentGold)
                     /\ Len(price_history) = Len(pre.price_history) + 1
                ELSE /\ products[id].selling_price = pre.products[id].selling_price
                     /\ price_history = pre.price_history

\* C8: right after a POST /api/gold-price with price G is answered 200, the
\* row it inserted is the one every read of the current gold price returns,
\* and the rows that were there before are unchanged.
C8_CurrentIsNewestRow ==
    \A r \in Slots :
        (EndedOk(r, "gold") /\ PositivePrice(r)) =>
            /\ gold_prices = Append(req[r].pre.gold_prices, gold_prices[Len(gold_prices)])
            /\ gold_prices[Len(gold_prices)].price_per_gram = req[r].body.price_per_gram.v
            /\ GoldRowChoices = {Len(gold_prices)}

\* the history row the batch of slot r appended for product id: the newest one that
\* carries its gold price and the price it computed
OwnEntry(r, id) ==
    price_history[Max({i \in DOMAIN price_history :
                          /\ price_history[i].product_id = id
                          /\ price_history[i].gold_price_per_gram
                                 = SqlDecimal(req[r].body.price_per_gram).v
                          /\ price_history[i].new_price
                                 = ToDecimal(req[r].loc.sellingPrice, CentScale).v})]

\* C9: the price history only grows; each turn of the gold-price loop appends
\* (product id, the product's stored price, the newly computed price, G) while the
\* product row still holds the old price; the update that follows replaces the price
\* that row records as the old one by the one it records as the new one; and a batch
\* answered 200 has appended exactly one row for each product it reports and none for
\* any other.  (The count is stated for a batch whose price no other slot carries.)
C9_HistoryAppendOnly ==
    [][ /\ IsPrefix(price_history, price_history')
        /\ \A r \in Slots :
              LET p == req[r].body.price_per_gram
              IN  /\ (req[r].pc = "g_history" /\ req'[r].pc = "g_update") =>
                        LET id == req[r].loc.batch[req[r].loc.k].id
                        IN  /\ price_history' =
                                  Append(price_history,
                                         [product_id |-> id,
                                          old_price |-> products[id].selling_price,
                                          new_price |-> StoredPrice(products[id], parseFloat(p)).v,
                                          gold_price_per_gram |-> SqlDecimal(p).v])
                            /\ products' = products
                  /\ (req[r].pc = "g_update" /\ req'[r].pc # "g_update" /\ req'[r].res.status # 500) =>
                        LET id == req[r].loc.batch[req[r].loc.k].id
                        IN  /\ products[id].selling_price = OwnEntry(r, id).old_price
                            /\ products'[id].selling_price = OwnEntry(r, id).new_price
                  /\ (/\ req[r].pc # "idle" /\ req[r].kind = "gold" /\ req'[r].pc = "idle"
                      /\ req'[r].res.status = 200
                      /\ \A o \in Slots \ {r} : req[o].body.price_per_gram # p) =>
                        \A q \in DOMAIN products :
                            Cardinality({i \in DOMAIN price_history' :
                                            /\ i > Len(req[r].pre.price_history)
                                            /\ price_history'[i].product_id = q
                                            /\ price_history'[i].gold_price_per_gram
                                                   = SqlDecimal(p).v})
                                = IF \E j \in DOMAIN req'[r].res.details :
                                         req'[r].res.details[j].id = q
                                  THEN 1 ELSE 0
      ]_vars

\* C10: in the details of a POST /api/gold-price answer, a product whose old
\* price is 0 has no computed percent change (never Infinity or NaN), and
\* any other product has (new - old) / old * 100.
C10_PercentChangeGuarded ==
    \A r \in Slots :
        (EndedOk(r, "gold") /\ PositivePrice(r)) =>
            \A i \in DOMAIN req[r].res.details :
                LET d == req[r].res.details[i]
                IN  IF d.old_price = 0
                    THEN d.change.t \notin {"Infinity", "NaN"}
                    ELSE d.change = PercentChange(d.old_price, Decimal(d.new_price, CentScale))

\* request r is a POST /api/gold-price answered 200 whose predecessor, answered 200 just
\* before it arrived, was a POST /api/gold-price with the same price_per_gram
SecondOfTwoEqual(r) ==
    /\ EndedOk(r, "gold")
    /\ req[r].prev.kind = "gold"
    /\ req[r].prev.status = 200
    /\ req[r].prev.price_per_gram = req[r].body.price_per_gram

\* C11: a second POST /api/gold-price with the same price, right after a first one that
\* succeeded, leaves every product row as the first call left it; it adds one gold_prices
\* row and one price_history row per active product, and nothing else.
C11_SamePriceTwiceKeepsPrices ==
    \A r \in Slots :
        (LastEnded(r) /\ SecondOfTwoEqual(r)) =>
            /\ products = req[r].pre.products
            /\ Len(gold_prices) = Len(req[r].pre.gold_prices) + 1
            /\ IsPrefix(req[r].pre.price_history, price_history)
            /\ Len(price_history) = Len(req[r].pre.price_history)
                                      + Cardinality(ActiveIds(req[r].pre.products))
            /\ \A p \in ActiveIds(req[r].pre.products) :
                   \E i \in (Len(req[r].pre.price_history) + 1)..Len(price_history) :
                       /\ price_history[i].product_id = p
                       /\ price_history[i].new_price = products[p].selling_price

\* the second call repriced an active product and the price differs from the default one
C11_Witness ==
    \E r \in Slots :
        /\ LastEnded(r) /\ SecondOfTwoEqual(r)
        /\ ActiveIds(req[r].pre.products) # {}
        /\ req[r].body.price_per_gram = Num(310000)
        /\ Len(price_history) > Len(req[r].pre.price_history)

\* request r is a PUT /api/products/:id whose id names no row of the products table
UnknownId(r) == req[r].kind = "update" /\ req[r].body.id \notin DOMAIN req[r].pre.products

\* C14: a PUT /api/products/:id with an id that names no product never gets past its
\* SELECT (so it neither reads the gold price nor writes a history or product row),
\* leaves the store as it was, and is answered 404 once the SELECT has been answered.
C14_UnknownIdNotFound ==
    \A r \in Slots :
        (req[r].seq = started /\ UnknownId(r)) =>
            /\ req[r].pc \in {"u_select", "idle"}
            /\ Snapshot = req[r].pre
            /\ (req[r].pc = "idle" /\ req[r].res.status # 500) => req[r].res.status = 404

\* a PUT that asks for a recalculation of a product that does not exist was answered 404
C14_Witness ==
    \E r \in Slots :
        /\ LastEnded(r) /\ UnknownId(r)
        /\ RecalculationRequested(req[r].body)
        /\ req[r].res.status = 404
        /\ products # <<>>

\* the positions of the price_history rows of product p, and the one before position i
EntriesOf(p) == {i \in DOMAIN price_history : price_history[i].product_id = p}

PreviousEntry(p, i) == Max({j \in EntriesOf(p) : j < i})

\* each row's old_price is the new_price of the product's previous row, and the newest
\* row's new_price is the product's stored selling_price
UnbrokenChain(p) ==
    /\ \A i \in EntriesOf(p) :
           (\E j \in EntriesOf(p) : j < i) =>
               price_history[i].old_price = price_history[PreviousEntry(p, i)].new_price
    /\ EntriesOf(p) # {} =>
           price_history[Max(EntriesOf(p))].new_price = products[p].selling_price

\* every request received so far was answered 200, none of them with a price that
\* is not positive
AllAnsweredOk ==
    /\ AllIdle
    /\ Cardinality({r \in Slots : req[r].kind # "none"}) = started
    /\ \A r \in Slots :
           req[r].kind # "none" =>
               /\ req[r].res.status = 200
               /\ req[r].kind = "gold" => PositivePrice(r)

\* C15: whenever no request is in flight and every request was answered 200, the
\* price_history rows of each product form an unbroken chain that ends at the product's
\* stored selling_price, also when the requests' awaits interleaved.
C15_HistoryChain ==
    AllAnsweredOk => \A p \in DOMAIN products : UnbrokenChain(p)

\* the label of the product priced is one of the table's, or one for which the lookup
\* finds nothing
PlainLabel == calc.product.carat \notin ObjectPrototype

\* C12 as stated: for a product with weight > 0 and non-negative percentages, a higher
\* positive price per gram gives a strictly higher rounded sellingPrice.
C12_StrictlyMonotone ==
    (calc.pc = "returned" /\ calc.low < calc.high) =>
        Less(calc.atLow.sellingPrice, calc.atHigh.sellingPrice)

\* C12: for a product with weight > 0, non-negative percentages and a label that names
\* no inherited property, a higher positive price per gram never gives a lower rounded
\* sellingPrice; the two can be equal.
C12_Monotone ==
    (calc.pc = "returned" /\ calc.low < calc.high /\ PlainLabel) =>
        GreaterEq(calc.atHigh.sellingPrice, calc.atLow.sellingPrice)

\* the smallest weight priced at two prices one step apart, with the same rounded result
C12_Witness ==
    /\ calc.pc = "returned"
    /\ calc.product.weight = 1
    /\ calc.high = calc.low + 1
    /\ PlainLabel
    /\ calc.atLow.sellingPrice = calc.atHigh.sellingPrice

\* the amounts of a breakdown are ordered: sellingPrice >= baseCost >= goldValue >= 0
Ordered(priceInfo) ==
    /\ GreaterEq(priceInfo.sellingPrice, priceInfo.baseCost)
    /\ GreaterEq(priceInfo.baseCost, priceInfo.goldValue)
    /\ GreaterEq(priceInfo.goldValue, Zero(FALSE))

\* C13: for a product with weight > 0, non-negative percentages and any carat label,
\* and a positive price per gram, the rounded amounts calculatePrice returns are
\* ordered: sellingPrice >= baseCost >= goldValue >= 0.
C13_BreakdownOrdered ==
    /\ calc.pc \in {"half", "returned"} => Ordered(calc.atLow)
    /\ calc.pc = "returned" => Ordered(calc.atHigh)

\* C16: connectDB makes at most maxRetries attempts, makes none after one that succeeded,
\* waits 2^k seconds after its k-th failure and nothing after the last one, where
\* startServer exits instead of listening; the server listens only once connected.
C16_BoundedRetries ==
    LET afterConnect == {"tables", "data", "data_price", "data_products", "data_current",
                         "data_insert", "returned", "listening"}
    IN  /\ boot.attempts <= maxRetries
        /\ boot.retryCount <= maxRetries
        /\ \A k \in DOMAIN boot.waited : boot.waited[k] = 2 ^ k
        /\ boot.pc = "connect" => boot.attempts = boot.retryCount /\ boot.retryCount < maxRetries
        /\ boot.pc = "delay" => boot.attempts = boot.retryCount /\ boot.retryCount < maxRetries
        /\ boot.pc # "exited" => Len(boot.waited) = boot.retryCount
        /\ boot.pc = "exited" =>
               /\ boot.attempts = maxRetries /\ boot.retryCount = maxRetries
               /\ Len(boot.waited) = maxRetries - 1
               /\ boot.timer = 0
               /\ ~boot.connected
        /\ boot.connected =>
               /\ boot.attempts = boot.retryCount + 1
               /\ boot.pc \in afterConnect
        /\ boot.pc \in afterConnect => boot.connected

\* the fifth attempt succeeded after waits of 2, 4, 8 and 16 seconds, the server listens
C16_Witness ==
    /\ boot.pc = "listening"
    /\ boot.attempts = maxRetries
    /\ boot.waited = <<2, 4, 8, 16>>
====
